---- MODULE Spec2Model ----
(***************************************************************************)
(* Model of streamlit_app/app.py: the Zomato Bengaluru dashboard script.   *)
(*                                                                         *)
(* The script is one top-to-bottom handler that Streamlit re-executes on   *)
(* every user interaction.  load_data is memoised by @st.cache_data; the   *)
(* rest of the script derives filtered views and aggregates from df.       *)
(*                                                                         *)
(* Values.  A pandas cell is a record: NaN is [na |-> TRUE]; a text cell   *)
(* is Str(s) with s a tuple of one-character strings; a float is either a  *)
(* finite decimal Dec(n, e) = n / 10^e (normalised) or Inf(sign).          *)
(***************************************************************************)
EXTENDS Integers, Sequences, FiniteSets, TLC

VARIABLES
    \* the cell-function specification
    arg, ret, fn,
    \* the process: the file on disk, the st.cache_data entry of load_data
    source, cache,
    \* history: the table of the first successful load, reads made after it
    first_loaded, late_reads,
    \* one run of the script
    pc, load_outcome, errors, df,
    selected_location, selected_price, min_rating, df_filtered,
    metrics,
    top_locations, city_dist, location_profile,
    rest_types, cuisine_counts,
    price_dist, corr_data,
    price_data, box_loc,
    top_popular, top_rated,
    search_name, search_results

cellVars == <<arg, ret, fn>>

processVars == <<source, cache, first_loaded, late_reads>>

sidebarVars == <<selected_location, selected_price, min_rating>>

outputVars ==
    <<metrics, top_locations, city_dist, location_profile, rest_types,
      cuisine_counts, price_dist, corr_data, price_data, box_loc, top_popular,
      top_rated,
      search_name, search_results>>

runVars == <<pc, load_outcome, errors, df, sidebarVars, df_filtered, outputVars>>

vars == <<cellVars, processVars, runVars>>

-----------------------------------------------------------------------------
(* Bounds of the model                                                     *)

\* Longest generated raw cell (in characters) of the parser specification.
MaxCellLen == 3

\* Largest integer cost handed to categorize_price directly.
MaxCost == 1600

\* Most records of a source file.
MaxRows == 2

-----------------------------------------------------------------------------
(* Cell values                                                             *)

NaN == [na |-> TRUE]

Str(s) == [na |-> FALSE, s |-> s]

Inf(sg) == [na |-> FALSE, inf |-> sg]

RECURSIVE Dec(_, _)
Dec(n, e) ==
    IF e > 0 /\ n % 10 = 0 THEN Dec(n \div 10, e - 1)
    ELSE [na |-> FALSE, n |-> n, e |-> e]

isna(v) == v.na

IsText(v) == ~v.na /\ "s" \in DOMAIN v

IsInf(v) == ~v.na /\ "inf" \in DOMAIN v

IsDec(v) == ~v.na /\ "n" \in DOMAIN v

RECURSIVE Pow10(_)
Pow10(k) == IF k <= 0 THEN 1 ELSE 10 * Pow10(k - 1)

\* a < b on floats; every comparison with NaN is False.
FloatLT(a, b) ==
    IF a.na \/ b.na THEN FALSE
    ELSE IF IsInf(a) THEN a.inf < 0 /\ ~(IsInf(b) /\ b.inf < 0)
    ELSE IF IsInf(b) THEN b.inf > 0
    ELSE a.n * Pow10(b.e) < b.n * Pow10(a.e)

\* a >= b on floats; every comparison with NaN is False.
FloatGE(a, b) == ~a.na /\ ~b.na /\ ~FloatLT(a, b)

-----------------------------------------------------------------------------
(* Python text primitives                                                  *)

Whitespace == {" ", "\t"}

Digits == {"0", "1", "2", "3", "4", "5", "6", "7", "8", "9"}

DigitVal(c) ==
    CASE c = "0" -> 0 [] c = "1" -> 1 [] c = "2" -> 2 [] c = "3" -> 3
      [] c = "4" -> 4 [] c = "5" -> 5 [] c = "6" -> 6 [] c = "7" -> 7
      [] c = "8" -> 8 [] c = "9" -> 9

RECURSIVE DigitsVal(_)
DigitsVal(s) ==
    IF s = <<>> THEN 0
    ELSE DigitsVal(SubSeq(s, 1, Len(s) - 1)) * 10 + DigitVal(s[Len(s)])

AllDigits(s) == \A i \in 1..Len(s) : s[i] \in Digits

\* str.lower() on the letters the model's alphabets hold.
Lower(c) ==
    CASE c = "A" -> "a" [] c = "B" -> "b" [] c = "C" -> "c" [] c = "E" -> "e"
      [] c = "F" -> "f" [] c = "I" -> "i" [] c = "N" -> "n" [] c = "P" -> "p"
      [] c = "T" -> "t" [] c = "W" -> "w" [] c = "Y" -> "y" [] c = "Z" -> "z"
      [] OTHER -> c

LowerStr(s) == [i \in 1..Len(s) |-> Lower(s[i])]

RECURSIVE LStrip(_)
LStrip(s) ==
    IF s # <<>> /\ s[1] \in Whitespace THEN LStrip(Tail(s)) ELSE s

RECURSIVE RStrip(_)
RStrip(s) ==
    IF s # <<>> /\ s[Len(s)] \in Whitespace
    THEN RStrip(SubSeq(s, 1, Len(s) - 1)) ELSE s

\* str.strip()
Strip(s) == RStrip(LStrip(s))

\* s.split(sep)[0]: the text left of the first sep (all of s without one).
SplitFirst(s, sep) ==
    LET at == {i \in 1..Len(s) : s[i] = sep}
    IN  IF at = {} THEN s
        ELSE SubSeq(s, 1, (CHOOSE i \in at : \A j \in at : i <= j) - 1)

\* s.replace(c, '')
RECURSIVE Remove(_, _)
Remove(s, c) ==
    IF s = <<>> THEN <<>>
    ELSE IF s[1] = c THEN Remove(Tail(s), c)
    ELSE <<s[1]>> \o Remove(Tail(s), c)

Raise == [err |-> TRUE]

Return(v) == [err |-> FALSE, val |-> v]

\* Python's None, and a name not bound yet in this run of the script.
None == [kind |-> "None"]

Unset == [kind |-> "unset"]

Cat(label) == [na |-> FALSE, cat |-> label]

\* float(s) of Python: surrounding whitespace is ignored, then an optional
\* sign and either nan / inf / infinity in any case or decimal digits with at
\* most one point and at least one digit.  Anything else raises ValueError.
\* (Exponents and digit-group underscores are outside the model's alphabets.)
PyFloat(s) ==
    LET t      == Strip(s)
        signed == t # <<>> /\ t[1] \in {"+", "-"}
        sg     == IF signed /\ t[1] = "-" THEN -1 ELSE 1
        u      == IF signed THEN Tail(t) ELSE t
        lu     == LowerStr(u)
        dots   == {i \in 1..Len(u) : u[i] = "."}
        dot    == CHOOSE i \in dots : TRUE
        ip     == IF dots = {} THEN u ELSE SubSeq(u, 1, dot - 1)
        fp     == IF dots = {} THEN <<>> ELSE SubSeq(u, dot + 1, Len(u))
    IN  IF lu = <<"n", "a", "n">> THEN Return(NaN)
        ELSE IF lu \in {<<"i", "n", "f">>,
                        <<"i", "n", "f", "i", "n", "i", "t", "y">>}
        THEN Return(Inf(sg))
        ELSE IF /\ Cardinality(dots) <= 1
                /\ AllDigits(ip) /\ AllDigits(fp)
                /\ Len(ip) + Len(fp) >= 1
        THEN Return(Dec(sg * DigitsVal(ip \o fp), Len(fp)))
        ELSE Raise

-----------------------------------------------------------------------------
(* Field cleaners of load_data                                             *)

\* Mutant of clean_rate: the sentinels are not tested and a text that does
\* not parse counts as 0.0.
clean_rate_zero(rate) ==
    IF isna(rate) THEN NaN
    ELSE LET r == PyFloat(Strip(SplitFirst(rate.s, "/")))
         IN  IF r.err THEN Dec(0, 0) ELSE r.val

clean_rate(rate) ==
    IF isna(rate) \/ rate = Str(<<"N", "E", "W">>) \/ rate = Str(<<"-">>)
    THEN NaN
    ELSE LET r == PyFloat(Strip(SplitFirst(rate.s, "/")))
         IN  IF r.err THEN NaN ELSE r.val

clean_cost(cost) ==
    IF isna(cost) THEN NaN
    ELSE LET r == PyFloat(Strip(Remove(cost.s, ",")))
         IN  IF r.err THEN NaN ELSE r.val

\* pd.to_numeric(..., errors='coerce') on one cell.
to_numeric(v) ==
    IF isna(v) THEN NaN
    ELSE LET r == PyFloat(v.s)
         IN  IF r.err THEN NaN ELSE r.val

\* Mutant of categorize_price: the bands are closed on the upper side.
categorize_price_closed(cost) ==
    IF isna(cost) THEN Cat("Inconnu")
    ELSE IF ~FloatLT(Dec(300, 0), cost) THEN Cat("Economique")
    ELSE IF ~FloatLT(Dec(700, 0), cost) THEN Cat("Modere")
    ELSE IF ~FloatLT(Dec(1500, 0), cost) THEN Cat("Eleve")
    ELSE Cat("Luxe")

\* The category labels are the source's, written without their accents; a
\* label is a value Cat(label).
categorize_price(cost) ==
    IF isna(cost) THEN Cat("Inconnu")
    ELSE IF FloatLT(cost, Dec(300, 0)) THEN Cat("Economique")
    ELSE IF FloatLT(cost, Dec(700, 0)) THEN Cat("Modere")
    ELSE IF FloatLT(cost, Dec(1500, 0)) THEN Cat("Eleve")
    ELSE Cat("Luxe")

-----------------------------------------------------------------------------
(* The source file and pd.read_csv                                         *)

TextColumns == {"name", "location", "listed_in(city)", "rest_type", "cuisines"}

NumericColumns == {"rate", "votes", "approx_cost(for two people)"}

ExpectedColumns == TextColumns \cup NumericColumns

RawRecord(name, location, city, rest_type, cuisines, rate, votes, cost) ==
    [c \in ExpectedColumns |->
        CASE c = "name" -> name
          [] c = "location" -> location
          [] c = "listed_in(city)" -> city
          [] c = "rest_type" -> rest_type
          [] c = "cuisines" -> cuisines
          [] c = "rate" -> rate
          [] c = "votes" -> votes
          [] c = "approx_cost(for two people)" -> cost]

\* The lines a source file is made of: well-formed cells, empty cells,
\* sentinels and unparseable text in every kind of column.
RawRecords ==
    { RawRecord(<<"A", "b">>, <<"A">>, <<"Z">>, <<"C">>, <<"a", ",", " ", "b">>,
                <<"4", ".", "1", "/", "5">>, <<"1", "0">>,
                <<"1", ",", "2", "0", "0">>),
      RawRecord(<<>>, <<"A">>, <<"Z">>, <<>>, <<"b">>,
                <<"3", ".", "5", "/", "5">>, <<>>, <<"3", "0", "0">>),
      RawRecord(<<"b", "a">>, <<"B">>, <<>>, <<"C">>, <<>>,
                <<"N", "E", "W">>, <<"5", "0">>, <<>>),
      RawRecord(<<"a", "B">>, <<>>, <<"Z">>, <<"C">>, <<"b", ",", "a">>,
                <<"-">>, <<"a", "b", "c">>, <<"a", "b", "c">>),
      RawRecord(<<"b">>, <<"B">>, <<"Y">>, <<"D">>, <<"a">>,
                <<" ", "4", ".", "5", " ", "/", "5">>, <<"5", "0">>,
                <<"3", "0", "0">>) }

RECURSIVE SeqsOfLen(_, _)
SeqsOfLen(S, n) ==
    IF n = 0 THEN {<<>>}
    ELSE {<<x>> \o s : x \in S, s \in SeqsOfLen(S, n - 1)}

\* A file holds a header line and 1..MaxRows records; at most one of the
\* expected columns is absent from it.
Sources ==
    { [present |-> p, columns |-> ExpectedColumns \ absent, rows |-> rows] :
        p \in BOOLEAN,
        absent \in {{}} \cup {{c} : c \in ExpectedColumns},
        rows \in UNION {SeqsOfLen(RawRecords, n) : n \in 1..MaxRows} }

DataFrame(columns, rows) ==
    [kind |-> "DataFrame", columns |-> columns, rows |-> rows]

IsTable(t) == t.kind = "DataFrame"

\* The texts read_csv takes for a missing value (its default na_values),
\* among the texts over the model's alphabets.
NaStrings ==
    { <<>>, <<"n", "a", "n">>, <<"N", "a", "N">>, <<"N", "A">>,
      <<"N", "/", "A">>, <<"n", "u", "l", "l">>, <<"N", "U", "L", "L">> }

ReadCell(text) == IF text \in NaStrings THEN NaN ELSE Str(text)

RaiseOf(exc) == [err |-> TRUE, exc |-> exc]

\* pd.read_csv: one row per record of the file, labelled 0, 1, 2, ...
read_csv(src) ==
    IF ~src.present THEN RaiseOf("FileNotFoundError")
    ELSE Return(DataFrame(src.columns,
            [i \in 1..Len(src.rows) |->
                [c \in src.columns \cup {"index"} |->
                    IF c = "index" THEN i - 1 ELSE ReadCell(src.rows[i][c])]]))

-----------------------------------------------------------------------------
(* pandas primitives used by the script                                    *)

Min(a, b) == IF a <= b THEN a ELSE b

\* s.head(n)
head(s, n) == SubSeq(s, 1, Min(n, Len(s)))

RECURSIVE Take(_, _)
Take(rows, mask) ==
    IF rows = <<>> THEN <<>>
    ELSE (IF mask[1] THEN <<rows[1]>> ELSE <<>>) \o Take(Tail(rows), Tail(mask))

\* t[mask], mask a boolean per row: the rows that pass, in their order, with
\* their index labels.
Where(t, mask) == DataFrame(t.columns, Take(t.rows, mask))

\* The positions of the rows of t.
Index(t) == 1..Len(t.rows)

\* t[column] as a sequence of cells.
Column(t, column) == [i \in 1..Len(t.rows) |-> t.rows[i][column]]

\* .dropna() on a sequence of cells.
DropNa(s) == SelectSeq(s, LAMBDA v : ~isna(v))

\* The dtype pandas gives a text column: object when a cell holds text,
\* float64 when every cell of the column is missing.
IsObjectColumn(t, column) == \E i \in 1..Len(t.rows) : IsText(t.rows[i][column])

RECURSIVE Distinct(_)
Distinct(s) ==
    IF s = <<>> THEN <<>>
    ELSE <<s[1]>> \o Distinct(SelectSeq(Tail(s), LAMBDA v : v # s[1]))

Occurrences(s, v) == Cardinality({i \in 1..Len(s) : s[i] = v})

Without(s, i) == SubSeq(s, 1, i - 1) \o SubSeq(s, i + 1, Len(s))

\* sort_values(field, ascending=False) of the entries s by an integer field;
\* equal values keep their order (the sort is stable on the few entries the
\* model holds).
RECURSIVE SortByCountDesc(_, _)
SortByCountDesc(s, field) ==
    IF s = <<>> THEN <<>>
    ELSE LET i == CHOOSE i \in 1..Len(s) :
                    /\ \A j \in 1..Len(s) : s[j][field] <= s[i][field]
                    /\ \A j \in 1..(i - 1) : s[j][field] < s[i][field]
         IN  <<s[i]>> \o SortByCountDesc(Without(s, i), field)

\* Series.value_counts(): missing values are not counted; descending count,
\* equal counts in order of first appearance.
value_counts(s) ==
    LET present == DropNa(s)
        keys    == Distinct(present)
    IN  SortByCountDesc([i \in 1..Len(keys) |->
            [key |-> keys[i], count |-> Occurrences(present, keys[i])]], "count")

\* A Series, or a list, bound to a name of the script.
Series(items) == [kind |-> "Series", items |-> items]

Keys(counts) == {counts[i].key : i \in 1..Len(counts)}

\* Code points of the characters the model's texts are made of.
CodePoint(c) ==
    CASE c = " " -> 32 [] c = "," -> 44
      [] c = "A" -> 65 [] c = "B" -> 66 [] c = "C" -> 67 [] c = "D" -> 68
      [] c = "Y" -> 89 [] c = "Z" -> 90
      [] c = "a" -> 97 [] c = "b" -> 98 [] c = "c" -> 99

\* a < b on Python strings.
StrLT(a, b) ==
    \E i \in 1..(Min(Len(a), Len(b)) + 1) :
        /\ \A j \in 1..(i - 1) : a[j] = b[j]
        /\ \/ i > Len(a) /\ i <= Len(b)
           \/ i <= Len(a) /\ i <= Len(b) /\ CodePoint(a[i]) < CodePoint(b[i])

\* The text cells of a set in ascending order (groupby sorts its keys).
RECURSIVE SortedKeys(_)
SortedKeys(S) ==
    IF S = {} THEN <<>>
    ELSE LET k == CHOOSE k \in S : \A o \in S : o = k \/ StrLT(k.s, o.s)
         IN  <<k>> \o SortedKeys(S \ {k})

RECURSIVE MaxExp(_)
MaxExp(vals) ==
    IF vals = <<>> THEN 0
    ELSE LET m == MaxExp(Tail(vals))
             e == IF IsDec(vals[1]) THEN vals[1].e ELSE 0
         IN  IF e > m THEN e ELSE m

RECURSIVE SumAt(_, _)
SumAt(vals, e) ==
    IF vals = <<>> THEN 0
    ELSE (IF IsDec(vals[1]) THEN vals[1].n * Pow10(e - vals[1].e) ELSE 0)
            + SumAt(Tail(vals), e)

\* num / den (den > 0) rounded to the nearest integer, halves to even.
RoundDiv(num, den) ==
    LET q == num \div den
        r == num % den
    IN  IF 2 * r < den THEN q
        ELSE IF 2 * r > den THEN q + 1
        ELSE IF q % 2 = 0 THEN q ELSE q + 1

HasInf(vals, sg) == \E i \in 1..Len(vals) : IsInf(vals[i]) /\ vals[i].inf = sg

\* Series.sum(): missing values are skipped, the sum of nothing is 0.
Sum(s) ==
    LET vals == DropNa(s)
        e    == MaxExp(vals)
    IN  IF HasInf(vals, 1) /\ HasInf(vals, -1) THEN NaN
        ELSE IF HasInf(vals, 1) THEN Inf(1)
        ELSE IF HasInf(vals, -1) THEN Inf(-1)
        ELSE Dec(SumAt(vals, e), e)

\* Series.mean() over the present values, then rounded to `places`
\* decimals (.round(2), and the :.2f and :.0f formats); NaN without any
\* present value.  The rounding is that of the exact decimal value.
MeanRounded(s, places) ==
    LET vals == DropNa(s)
        e    == MaxExp(vals)
        tot  == Sum(s)
    IN  IF vals = <<>> THEN NaN
        ELSE IF ~IsDec(tot) THEN tot
        ELSE Dec(RoundDiv(SumAt(vals, e) * Pow10(places), Pow10(e) * Len(vals)),
                 places)

\* sort_values(ascending=False) of rows by a float column; equal values keep
\* their order.  No value is missing.
RECURSIVE SortByColumnDesc(_, _)
SortByColumnDesc(rows, column) ==
    IF rows = <<>> THEN <<>>
    ELSE LET i == CHOOSE i \in 1..Len(rows) :
                    /\ \A j \in 1..Len(rows) :
                            ~FloatLT(rows[i][column], rows[j][column])
                    /\ \A j \in 1..(i - 1) :
                            FloatLT(rows[j][column], rows[i][column])
         IN  <<rows[i]>> \o SortByColumnDesc(Without(rows, i), column)

\* DataFrame.nlargest(n, column): descending by the column, equal values in
\* table order (keep='first'); the rows whose value is missing come last and
\* fill up the n places the present values leave.
nlargest(t, n, column) ==
    LET present == SelectSeq(t.rows, LAMBDA r : ~isna(r[column]))
        missing == SelectSeq(t.rows, LAMBDA r : isna(r[column]))
    IN  DataFrame(t.columns, head(SortByColumnDesc(present, column) \o missing, n))

\* t[columns]
Project(t, columns) ==
    DataFrame(columns,
        [i \in 1..Len(t.rows) |->
            [c \in columns \cup {"index"} |-> t.rows[i][c]]])

\* .reset_index(drop=True), then `.index += 1`
RankedFromOne(t) ==
    DataFrame(t.columns,
        [i \in 1..Len(t.rows) |-> [t.rows[i] EXCEPT !["index"] = (i - 1) + 1]])

\* Whether pat occurs in s (a pattern of letters is its own regex).
Contains(s, pat) ==
    \E k \in 0..(Len(s) - Len(pat)) :
        \A j \in 1..Len(pat) : s[k + j] = pat[j]

\* Series.str.contains(pat, case=False, na=False) on one cell.
str_contains(cell, pat) ==
    IF ~IsText(cell) THEN FALSE
    ELSE Contains(LowerStr(cell.s), LowerStr(pat))

\* s.split(','): the pieces between the commas.
RECURSIVE Split(_, _)
Split(s, sep) ==
    LET at == {i \in 1..Len(s) : s[i] = sep}
    IN  IF at = {} THEN <<s>>
        ELSE LET i == CHOOSE i \in at : \A j \in at : i <= j
             IN  <<SubSeq(s, 1, i - 1)>> \o Split(SubSeq(s, i + 1, Len(s)), sep)

\* .str.split(',').explode().str.strip() over the present cells.
RECURSIVE Exploded(_)
Exploded(cells) ==
    IF cells = <<>> THEN <<>>
    ELSE LET pieces == Split(cells[1].s, ",")
         IN  [i \in 1..Len(pieces) |-> Str(Strip(pieces[i]))]
                \o Exploded(Tail(cells))

-----------------------------------------------------------------------------
(* load_data                                                               *)

\* df[column] = values: the column is replaced or added, rows are kept.
Assign(t, column, values) ==
    DataFrame(t.columns \cup {column},
        [i \in Index(t) |->
            [c \in DOMAIN t.rows[i] \cup {column} |->
                IF c = column THEN values[i] ELSE t.rows[i][c]]])

\* Line 56: df['rate'] = df['rate'].apply(clean_rate)
AssignRate(t) ==
    Assign(t, "rate", [i \in Index(t) |-> clean_rate(t.rows[i]["rate"])])

\* Line 67: the cost column goes through clean_cost.
AssignCost(t) ==
    Assign(t, "approx_cost(for two people)",
           [i \in Index(t) |->
                clean_cost(t.rows[i]["approx_cost(for two people)"])])

\* Line 70: df['votes'] = pd.to_numeric(df['votes'], errors='coerce')
AssignVotes(t) ==
    Assign(t, "votes", [i \in Index(t) |-> to_numeric(t.rows[i]["votes"])])

\* Line 85: the derived column, computed from the cleaned cost.
AssignPriceCategory(t) ==
    Assign(t, "price_category",
           [i \in Index(t) |->
                categorize_price(t.rows[i]["approx_cost(for two people)"])])

\* Lines 56-85: the three cleaned columns, then the derived one.
Cleaned(t) == AssignPriceCategory(AssignVotes(AssignCost(AssignRate(t))))

\* Mutant of load_data: the records without a rating are dropped (dropna).
load_data_dropna(src) ==
    LET r == read_csv(src)
    IN  IF r.err THEN [err |-> FALSE, val |-> None, shown |-> {"introuvable"}]
        ELSE IF ~(NumericColumns \subseteq r.val.columns) THEN RaiseOf("KeyError")
        ELSE LET t == Cleaned(r.val)
             IN  [err |-> FALSE, shown |-> {},
                  val |-> DataFrame(t.columns,
                            SelectSeq(t.rows, LAMBDA row : ~isna(row["rate"])))]

\* Mutant of load_data: a missing file yields an empty table, not None.
load_data_empty(src) ==
    LET r == read_csv(src)
    IN  IF r.err
        THEN [err |-> FALSE, shown |-> {"introuvable"},
              val |-> DataFrame(ExpectedColumns \cup {"price_category"}, <<>>)]
        ELSE IF ~(NumericColumns \subseteq r.val.columns) THEN RaiseOf("KeyError")
        ELSE [err |-> FALSE, val |-> Cleaned(r.val), shown |-> {}]

\* The body of load_data.  FileNotFoundError is caught: st.error is shown and
\* None is returned.  A KeyError (rate, votes or cost column absent) is not.
load_data(src) ==
    LET r == read_csv(src)
    IN  IF r.err THEN [err |-> FALSE, val |-> None, shown |-> {"introuvable"}]
        ELSE IF ~(NumericColumns \subseteq r.val.columns) THEN RaiseOf("KeyError")
        ELSE [err |-> FALSE, val |-> Cleaned(r.val), shown |-> {}]

\* Mutant of cache_lookup: the memoisation is lost, every call is a miss.
cache_lookup_miss(entry) == Unset

\* @st.cache_data, load_data taking no argument: the one entry of the cache,
\* Unset on a miss.  An entry holds the value returned and the elements shown.
cache_lookup(entry) == entry

CacheEntry(val, shown) == [kind |-> "entry", val |-> val, shown |-> shown]

-----------------------------------------------------------------------------
(* One run of the script                                                   *)

RunUnset ==
    /\ load_outcome = "unset" /\ errors = {} /\ df = Unset
    /\ selected_location = Unset /\ selected_price = Unset /\ min_rating = Unset
    /\ df_filtered = Unset /\ metrics = Unset
    /\ top_locations = Unset /\ city_dist = Unset /\ location_profile = Unset
    /\ rest_types = Unset /\ cuisine_counts = Unset
    /\ price_dist = Unset /\ corr_data = Unset
    /\ price_data = Unset /\ box_loc = Unset
    /\ top_popular = Unset /\ top_rated = Unset
    /\ search_name = Unset /\ search_results = Unset

\* df = load_data(), then the test of line 95.
LoadData ==
    /\ pc = "start"
    /\ LET hit == cache_lookup(cache)
       IN  IF hit # Unset
           THEN /\ df' = hit.val
                /\ errors' = hit.shown
                /\ load_outcome' = "hit"
                /\ pc' = IF hit.val = None THEN "else" ELSE "sidebar"
                /\ UNCHANGED <<cache, first_loaded, late_reads>>
           ELSE LET r == load_data(source)
                    late == IF first_loaded # Unset THEN 1 ELSE 0
                IN  IF r.err
                    THEN /\ load_outcome' = r.exc
                         /\ pc' = "crashed"
                         /\ late_reads' = late_reads + late
                         /\ UNCHANGED <<df, errors, cache, first_loaded>>
                    ELSE /\ df' = r.val
                         /\ errors' = r.shown
                         /\ cache' = CacheEntry(r.val, r.shown)
                         /\ load_outcome' =
                                IF source.present THEN "read" ELSE "FileNotFoundError"
                         /\ first_loaded' =
                                IF first_loaded = Unset /\ IsTable(r.val)
                                THEN r.val ELSE first_loaded
                         /\ late_reads' = late_reads + late
                         /\ pc' = IF r.val = None THEN "else" ELSE "sidebar"
    /\ UNCHANGED <<cellVars, source, sidebarVars, df_filtered, outputVars>>

\* The else branch of `if df is not None`: the message, and nothing more.
NoData ==
    /\ pc = "else"
    /\ errors' = errors \cup {"impossible"}
    /\ pc' = "done"
    /\ UNCHANGED <<cellVars, processVars, load_outcome, df, sidebarVars,
                   df_filtered, outputVars>>

-----------------------------------------------------------------------------
(* Sidebar and filters                                                     *)

Tous == Str(<<"T", "o", "u", "s">>)

\* The options of the two select boxes (their order plays no part).
all_locations(t) == {Tous} \cup Keys(value_counts(Column(t, "location")))

price_categories(t) ==
    {Cat("Tous")} \cup {t.rows[i]["price_category"] : i \in 1..Len(t.rows)}

\* The positions of the slider: 0.0 to 5.0 in steps of 0.5.
SliderValues == {Dec(5 * k, 1) : k \in 0..10}


SearchInputs == {<<>>, <<"a", "b">>, <<"B">>}

\* Mutant of FilterLocation: the mask is taken on df, so what was narrowed
\* before is lost.
FilterLocationOfDf(t, loc) ==
    Where(df, [i \in Index(df) |-> df.rows[i]["location"] = loc])

FilterLocation(t, loc) ==
    Where(t, [i \in Index(t) |-> t.rows[i]["location"] = loc])

FilterPrice(t, price) ==
    Where(t, [i \in Index(t) |-> t.rows[i]["price_category"] = price])

\* Mutant of rate_mask: a missing rating is compared as 0 (fillna(0)).
rate_mask_fillna(rate, threshold) ==
    FloatGE(IF isna(rate) THEN Dec(0, 0) ELSE rate, threshold)

\* df_filtered['rate'] >= min_rating on one cell.
rate_mask(rate, threshold) == FloatGE(rate, threshold)

FilterRate(t, threshold) ==
    Where(t, [i \in Index(t) |-> rate_mask(t.rows[i]["rate"], threshold)])

\* Lines 135-140: df.copy(), then the three narrowing steps.
apply_filters(t, loc, price, threshold) ==
    LET a == t
        b == IF loc # Tous THEN FilterLocation(a, loc) ELSE a
        c == IF price # Cat("Tous") THEN FilterPrice(b, price) ELSE b
    IN  FilterRate(c, threshold)

Sidebar ==
    /\ pc = "sidebar"
    /\ IF "location" \notin df.columns
       THEN /\ pc' = "crashed"
            /\ errors' = errors \cup {"KeyError"}
            /\ UNCHANGED sidebarVars
       ELSE /\ \E loc \in all_locations(df), price \in price_categories(df),
                  threshold \in SliderValues :
                    /\ selected_location' = loc
                    /\ selected_price' = price
                    /\ min_rating' = threshold
            /\ pc' = "filters"
            /\ UNCHANGED errors
    /\ UNCHANGED <<cellVars, processVars, load_outcome, df, df_filtered, outputVars>>

\* Mutant of ApplyFilters: the narrowed table is bound to df as well.
ApplyFiltersInPlace ==
    /\ pc = "filters"
    /\ df_filtered' = apply_filters(df, selected_location, selected_price, min_rating)
    /\ df' = df_filtered'
    /\ pc' = "metrics"
    /\ UNCHANGED <<cellVars, processVars, load_outcome, errors, sidebarVars, outputVars>>

ApplyFilters ==
    /\ pc = "filters"
    /\ df_filtered' = apply_filters(df, selected_location, selected_price, min_rating)
    /\ pc' = "metrics"
    /\ UNCHANGED <<cellVars, processVars, load_outcome, errors, df, sidebarVars,
                   outputVars>>

-----------------------------------------------------------------------------
(* Metrics and tabs                                                        *)

\* Lines 151-178: the four figures of the overview, as they are formatted.
Overview ==
    /\ pc = "metrics"
    /\ metrics' =
        [kind |-> "metrics",
         count |-> Len(df_filtered.rows),
         avg_rating |-> MeanRounded(Column(df_filtered, "rate"), 2),
         avg_cost |-> MeanRounded(Column(df_filtered, "approx_cost(for two people)"), 0),
         total_votes |-> Sum(Column(df_filtered, "votes"))]
    /\ pc' = "tab1"
    /\ UNCHANGED <<cellVars, processVars, load_outcome, errors, df, sidebarVars,
                   df_filtered, top_locations, city_dist, location_profile,
                   rest_types, cuisine_counts, price_dist, corr_data, price_data,
                   box_loc, top_popular, top_rated, search_name, search_results>>

\* agg 'name': 'count': the rows of the group whose name is present.
group_count(rows) == Len(DropNa([i \in 1..Len(rows) |-> rows[i]["name"]]))

ProfileColumns == {"Nombre", "Note moy.", "Votes moy.", "Cout moy. (INR)"}

\* Lines 229-237: the profile of the ten most frequent locations, one row
\* per location, labelled by it.
location_profile_of(t) ==
    LET top_10_locations == Keys(head(value_counts(Column(t, "location")), 10))
        kept   == Where(t, [i \in Index(t) |->
                                t.rows[i]["location"] \in top_10_locations])
        keys   == SortedKeys(top_10_locations)
        group(k) == SelectSeq(kept.rows, LAMBDA r : r["location"] = k)
        column(k, c) == [i \in 1..Len(group(k)) |-> group(k)[i][c]]
        profile == [i \in 1..Len(keys) |->
            [c \in ProfileColumns \cup {"index"} |->
                CASE c = "index" -> keys[i]
                  [] c = "Nombre" -> group_count(group(keys[i]))
                  [] c = "Note moy." -> MeanRounded(column(keys[i], "rate"), 2)
                  [] c = "Votes moy." -> MeanRounded(column(keys[i], "votes"), 2)
                  [] c = "Cout moy. (INR)" ->
                        MeanRounded(column(keys[i], "approx_cost(for two people)"), 2)]]
    IN  DataFrame(ProfileColumns, SortByCountDesc(profile, "Nombre"))

\* Tab 1, lines 195-238.
Geography ==
    /\ pc = "tab1"
    /\ top_locations' = Series(head(value_counts(Column(df_filtered, "location")), 15))
    /\ LET hasCity == "listed_in(city)" \in df_filtered.columns
           hasName == "name" \in df_filtered.columns
       IN  /\ city_dist' =
                IF hasCity
                THEN Series(head(value_counts(Column(df_filtered, "listed_in(city)")), 10))
                ELSE Unset
           /\ location_profile' =
                IF hasCity /\ hasName THEN location_profile_of(df_filtered) ELSE Unset
           /\ pc' = IF hasCity /\ hasName THEN "tab2" ELSE "crashed"
           /\ errors' = IF hasCity /\ hasName THEN errors ELSE errors \cup {"KeyError"}
    /\ UNCHANGED <<cellVars, processVars, load_outcome, df, sidebarVars, df_filtered,
                   metrics, rest_types, cuisine_counts, price_dist, corr_data,
                   price_data, box_loc, top_popular, top_rated, search_name,
                   search_results>>

\* Tab 2, lines 241-275.  The .str accessor raises AttributeError on a column
\* that holds no text.
TypesCuisines ==
    /\ pc = "tab2"
    /\ LET hasType     == "rest_type" \in df_filtered.columns
           hasCuisines == "cuisines" \in df_filtered.columns
           isText      == hasCuisines /\ IsObjectColumn(df, "cuisines")
       IN  /\ rest_types' =
                IF hasType
                THEN Series(head(value_counts(Column(df_filtered, "rest_type")), 15))
                ELSE Unset
           /\ cuisine_counts' =
                IF hasType /\ isText
                THEN Series(head(value_counts(
                            Exploded(DropNa(Column(df_filtered, "cuisines")))), 15))
                ELSE Unset
           /\ pc' = IF hasType /\ isText THEN "tab3" ELSE "crashed"
           /\ errors' =
                IF hasType /\ isText THEN errors
                ELSE IF hasType /\ hasCuisines THEN errors \cup {"AttributeError"}
                ELSE errors \cup {"KeyError"}
    /\ UNCHANGED <<cellVars, processVars, load_outcome, df, sidebarVars, df_filtered,
                   metrics, top_locations, city_dist, location_profile, price_dist,
                   corr_data, price_data, box_loc, top_popular, top_rated,
                   search_name, search_results>>

CorrColumns == {"rate", "votes", "approx_cost(for two people)"}

\* DataFrame.corr(): each coefficient is taken over the rows where both
\* columns of its pair are present.  The model keeps, for every pair, the
\* labels of the rows the coefficient is computed from.
corr_rows(t) ==
    [a \in CorrColumns |-> [b \in CorrColumns |->
        LET both == SelectSeq(t.rows, LAMBDA r : ~isna(r[a]) /\ ~isna(r[b]))
        IN  [i \in 1..Len(both) |-> both[i]["index"]]]]

\* Tab 3, lines 278-341.
PricePopularity ==
    /\ pc = "tab3"
    /\ price_dist' = Series(value_counts(Column(df_filtered, "price_category")))
    /\ corr_data' = [kind |-> "corr", rows |-> corr_rows(df_filtered)]
    /\ pc' = "tab4"
    /\ UNCHANGED <<cellVars, processVars, load_outcome, errors, df, sidebarVars,
                   df_filtered, metrics, top_locations, city_dist, location_profile,
                   rest_types, cuisine_counts, price_data, box_loc, top_popular,
                   top_rated, search_name, search_results>>

price_order == {Cat("Economique"), Cat("Modere"), Cat("Eleve"), Cat("Luxe")}

\* Tab 4, lines 344-383.
Comparisons ==
    /\ pc = "tab4"
    /\ price_data' = Where(df_filtered, [i \in Index(df_filtered) |->
                        df_filtered.rows[i]["price_category"] \in price_order])
    /\ LET top_5_locations == head(value_counts(Column(df_filtered, "location")), 5)
       IN  box_loc' = Series([i \in 1..Len(top_5_locations) |->
                [name |-> top_5_locations[i].key,
                 y    |-> Column(FilterLocation(df_filtered, top_5_locations[i].key),
                                 "rate")]])
    /\ pc' = "top"
    /\ UNCHANGED <<cellVars, processVars, load_outcome, errors, df, sidebarVars,
                   df_filtered, metrics, top_locations, city_dist, location_profile,
                   rest_types, cuisine_counts, price_dist, corr_data, top_popular,
                   top_rated, search_name, search_results>>

-----------------------------------------------------------------------------
(* Top restaurants and search                                              *)

TopColumns == {"name", "location", "rate", "votes", "approx_cost(for two people)"}

\* Lines 396-408.
TopRestaurants ==
    /\ pc = "top"
    /\ top_popular' = RankedFromOne(Project(nlargest(df_filtered, 10, "votes"), TopColumns))
    /\ top_rated' = RankedFromOne(Project(nlargest(df_filtered, 10, "rate"), TopColumns))
    /\ pc' = "search"
    /\ UNCHANGED <<cellVars, processVars, load_outcome, errors, df, sidebarVars,
                   df_filtered, metrics, top_locations, city_dist, location_profile,
                   rest_types, cuisine_counts, price_dist, corr_data, price_data,
                   box_loc, search_name, search_results>>

SearchColumns ==
    {"name", "location", "cuisines", "rate", "votes",
     "approx_cost(for two people)", "rest_type"}

\* Lines 417-428, and the footer.  The .str accessor raises AttributeError
\* on a name column that holds no text.
Search ==
    /\ pc = "search"
    /\ \E query \in SearchInputs :
        /\ search_name' = Str(query)
        /\ IF query = <<>>
           THEN /\ pc' = "done"
                /\ UNCHANGED <<search_results, errors>>
           ELSE IF ~IsObjectColumn(df, "name")
           THEN /\ pc' = "crashed"
                /\ errors' = errors \cup {"AttributeError"}
                /\ UNCHANGED search_results
           ELSE /\ search_results' =
                    Project(Where(df_filtered, [i \in Index(df_filtered) |->
                                str_contains(df_filtered.rows[i]["name"], query)]),
                            SearchColumns)
                /\ pc' = "done"
                /\ UNCHANGED errors
    /\ UNCHANGED <<cellVars, processVars, load_outcome, df, sidebarVars, df_filtered,
                   metrics, top_locations, city_dist, location_profile, rest_types,
                   cuisine_counts, price_dist, corr_data, price_data, box_loc,
                   top_popular, top_rated>>

-----------------------------------------------------------------------------
(* Reruns and the environment                                              *)

\* A user interaction: Streamlit runs the script again from its first line.
Rerun ==
    /\ pc \in {"done", "crashed"}
    /\ pc' = "start"
    /\ load_outcome' = "unset" /\ errors' = {} /\ df' = Unset
    /\ selected_location' = Unset /\ selected_price' = Unset
    /\ min_rating' = Unset /\ df_filtered' = Unset /\ metrics' = Unset
    /\ top_locations' = Unset /\ city_dist' = Unset
    /\ location_profile' = Unset
    /\ rest_types' = Unset /\ cuisine_counts' = Unset
    /\ price_dist' = Unset /\ corr_data' = Unset
    /\ price_data' = Unset /\ box_loc' = Unset
    /\ top_popular' = Unset /\ top_rated' = Unset
    /\ search_name' = Unset /\ search_results' = Unset
    /\ UNCHANGED <<cellVars, processVars>>

\* The environment, between two runs: the file is moved away or put back.
RemoveSource ==
    /\ pc = "start" /\ source.present
    /\ source' = [source EXCEPT !.present = FALSE]
    /\ UNCHANGED <<cellVars, cache, first_loaded, late_reads, runVars>>

RestoreSource ==
    /\ pc = "start" /\ ~source.present
    /\ source' = [source EXCEPT !.present = TRUE]
    /\ UNCHANGED <<cellVars, cache, first_loaded, late_reads, runVars>>

Init ==
    /\ arg = NaN /\ ret = NaN /\ fn = "off"
    /\ source \in Sources
    /\ cache = Unset
    /\ first_loaded = Unset /\ late_reads = 0
    /\ pc = "start"
    /\ RunUnset

Next ==
    \/ LoadData
    \/ NoData
    \/ Sidebar
    \/ ApplyFilters
    \/ Overview
    \/ Geography
    \/ TypesCuisines
    \/ PricePopularity
    \/ Comparisons
    \/ TopRestaurants
    \/ Search
    \/ Rerun
    \/ RemoveSource
    \/ RestoreSource

Spec == Init /\ [][Next]_vars

-----------------------------------------------------------------------------
(* Specification of the cell functions: an input is drawn, then one of the *)
(* cleaners is applied to it; categorize_price is applied to a float.      *)

RateAlphabet == {"4", ".", "/", " ", "-", "N"}

RECURSIVE StringsUpTo(_, _)
StringsUpTo(alphabet, n) ==
    IF n = 0 THEN {<<>>}
    ELSE LET shorter == StringsUpTo(alphabet, n - 1)
         IN  shorter \cup {<<c>> \o s : c \in alphabet,
                                         s \in {x \in shorter : Len(x) = n - 1}}

\* The raw values the specification names, and the cost examples.
NamedCells ==
    { <<"4", ".", "1", "/", "5">>, <<"N", "E", "W">>, <<"-">>, <<>>,
      <<"n", "a", "n">>, <<"a", "b", "c", "/", "5">>,
      <<" ", "3", ".", "5", " ", "/", "5">>, <<"4", ".", "1">>,
      <<"1", ",", "2", "0", "0">>, <<"3", "5", "0">>, <<"a", "b", "c">>,
      <<"i", "n", "f">>, <<"-", "1">>, <<" ", "N", "E", "W">> }

RawCells ==
    {NaN} \cup {Str(s) : s \in NamedCells \cup StringsUpTo(RateAlphabet, MaxCellLen)}

CostInputs ==
    {NaN, Inf(1), Inf(-1)}
        \cup {Dec(n, 0) : n \in (-1)..MaxCost}
        \cup {Dec(10 * n + 5, 1) : n \in 0..MaxCost}

InitCells ==
    /\ arg \in RawCells \cup CostInputs
    /\ ret = NaN
    /\ fn = "none"
    /\ source = [present |-> FALSE, columns |-> {}, rows |-> <<>>]
    /\ cache = Unset
    /\ first_loaded = Unset /\ late_reads = 0
    /\ pc = "off"
    /\ RunUnset

CallCleanRate ==
    /\ fn = "none" /\ arg \in RawCells
    /\ ret' = clean_rate(arg)
    /\ fn' = "clean_rate"
    /\ UNCHANGED <<arg, processVars, runVars>>

CallCleanCost ==
    /\ fn = "none" /\ arg \in RawCells
    /\ ret' = clean_cost(arg)
    /\ fn' = "clean_cost"
    /\ UNCHANGED <<arg, processVars, runVars>>

CallToNumeric ==
    /\ fn = "none" /\ arg \in RawCells
    /\ ret' = to_numeric(arg)
    /\ fn' = "to_numeric"
    /\ UNCHANGED <<arg, processVars, runVars>>

CallCategorizePrice ==
    /\ fn = "none" /\ arg \in CostInputs
    /\ ret' = categorize_price(arg)
    /\ fn' = "categorize_price"
    /\ UNCHANGED <<arg, processVars, runVars>>

NextCells ==
    \/ CallCleanRate
    \/ CallCleanCost
    \/ CallToNumeric
    \/ CallCategorizePrice

SpecCells == InitCells /\ [][NextCells]_vars

-----------------------------------------------------------------------------
(* Properties                                                              *)

Rows(t) == {t.rows[i] : i \in 1..Len(t.rows)}

\* C1: whatever the position of the slider (0.0 included), no record whose
\* rating is missing is in the filtered table: every record of df_filtered
\* holds a rating, and no record of df without one is found in it.
C1_MissingRatingNeverPasses ==
    IsTable(df_filtered) =>
        /\ \A r \in Rows(df_filtered) : ~isna(r["rate"])
        /\ \A r \in Rows(df) : isna(r["rate"]) => r \notin Rows(df_filtered)

\* The slider is at 0.0, no other filter is set, df holds a record without a
\* rating and a record with one, and the filters have been applied.
C1_Witness ==
    /\ IsTable(df_filtered)
    /\ min_rating = Dec(0, 0)
    /\ selected_location = Tous /\ selected_price = Cat("Tous")
    /\ \E r \in Rows(df) : isna(r["rate"])
    /\ df_filtered.rows # <<>>

\* The band of a finite cost n / 10^e, by integer comparison.
BandOf(cost) ==
    LET unit == Pow10(cost.e)
    IN  IF cost.n < 300 * unit THEN "Economique"
        ELSE IF cost.n < 700 * unit THEN "Modere"
        ELSE IF cost.n < 1500 * unit THEN "Eleve"
        ELSE "Luxe"

\* C2: categorize_price gives every cost one category by half-open bands:
\* missing -> Inconnu, cost < 300 -> Economique, 300 <= cost < 700 -> Modere,
\* 700 <= cost < 1500 -> Eleve, cost >= 1500 -> Luxe; 300, 700 and 1500 fall
\* in the higher band, and the result is Inconnu iff the cost is missing.
C2_HalfOpenBands ==
    fn = "categorize_price" =>
        /\ ret = Cat("Inconnu") <=> isna(arg)
        /\ IsDec(arg) => ret = Cat(BandOf(arg))
        /\ arg = Inf(1) => ret = Cat("Luxe")
        /\ arg = Inf(-1) => ret = Cat("Economique")
        /\ arg = Dec(299, 0) => ret = Cat("Economique")
        /\ arg = Dec(300, 0) => ret = Cat("Modere")
        /\ arg = Dec(699, 0) => ret = Cat("Modere")
        /\ arg = Dec(700, 0) => ret = Cat("Eleve")
        /\ arg = Dec(1499, 0) => ret = Cat("Eleve")
        /\ arg = Dec(1500, 0) => ret = Cat("Luxe")

\* categorize_price was applied to the boundary 1500.
C2_Witness ==
    fn = "categorize_price" /\ arg = Dec(1500, 0) /\ ret = Cat("Luxe")

\* C3: on the loaded table, for every location and every price category,
\* location then price, price then location, and one selection by both
\* predicates give the same records in the same order; the filtered table of
\* the script is that selection narrowed by the rating.
C3_FiltersCommute ==
    (IsTable(df) /\ "location" \in df.columns) =>
        /\ \A loc \in all_locations(df) \ {Tous},
              price \in price_categories(df) \ {Cat("Tous")} :
                LET both == Where(df, [i \in Index(df) |->
                                /\ df.rows[i]["location"] = loc
                                /\ df.rows[i]["price_category"] = price])
                IN  /\ FilterPrice(FilterLocation(df, loc), price) = both
                    /\ FilterLocation(FilterPrice(df, price), loc) = both
        /\ (/\ IsTable(df_filtered)
            /\ selected_location # Tous /\ selected_price # Cat("Tous"))
            => df_filtered =
                 FilterRate(FilterLocation(FilterPrice(df, selected_price),
                                           selected_location), min_rating)

\* Both select boxes are set, each predicate alone removes a record of df,
\* and a record passes all the filters.
C3_Witness ==
    /\ IsTable(df_filtered)
    /\ selected_location # Tous /\ selected_price # Cat("Tous")
    /\ Len(FilterLocation(df, selected_location).rows) < Len(df.rows)
    /\ Len(FilterPrice(df, selected_price).rows) < Len(df.rows)
    /\ df_filtered.rows # <<>>

NothingDerived ==
    /\ selected_location = Unset /\ selected_price = Unset /\ min_rating = Unset
    /\ df_filtered = Unset /\ metrics = Unset
    /\ top_locations = Unset /\ city_dist = Unset /\ location_profile = Unset
    /\ rest_types = Unset /\ cuisine_counts = Unset
    /\ price_dist = Unset /\ corr_data = Unset
    /\ price_data = Unset /\ box_loc = Unset
    /\ top_popular = Unset /\ top_rated = Unset
    /\ search_name = Unset /\ search_results = Unset

\* C4: when the file is not found, load_data returns None and never a table
\* (and shows its message); with df None the run takes the else branch only:
\* no filter, aggregate or search is ever computed in that run.
C4_MissingSourceHalts ==
    /\ load_outcome = "FileNotFoundError" => df = None /\ "introuvable" \in errors
    /\ df = None => /\ pc \in {"else", "done"}
                    /\ NothingDerived
                    /\ pc = "done" => "impossible" \in errors

\* A run found no file and has ended in the else branch.
C4_Witness ==
    /\ load_outcome = "FileNotFoundError"
    /\ pc = "done" /\ df = None
    /\ errors = {"introuvable", "impossible"}

\* C5: from the first successful load on, the cache holds the table of that
\* load, every call of load_data returns it, and the file is not read again.
C5_LoadedOnce ==
    first_loaded # Unset =>
        /\ late_reads = 0
        /\ cache # Unset /\ cache.val = first_loaded
        /\ pc = "sidebar" => df = first_loaded

\* A later run got the table from the cache although the file is gone.
C5_Witness ==
    /\ pc = "sidebar" /\ load_outcome = "hit"
    /\ IsTable(df) /\ df = first_loaded
    /\ ~source.present

\* C6: the table load_data returned is never changed by what follows it in
\* the run: after the filters, the counts, the profile, the rankings, the
\* correlation and the search, df holds the records it was loaded with, in
\* their order, with their values.
C6_LoadedTableUnchanged ==
    IsTable(df) => df = cache.val /\ df = first_loaded

\* A run has ended after filtering some records away, ranking and searching.
C6_Witness ==
    /\ pc = "done" /\ IsTable(df)
    /\ Len(df_filtered.rows) < Len(df.rows)
    /\ IsTable(location_profile) /\ IsTable(top_popular) /\ IsTable(top_rated)
    /\ corr_data # Unset /\ IsTable(search_results)

\* C7: the table load_data builds has one record per record of the file, in
\* the order of the file (labelled 0, 1, 2, ...), its text cells as read,
\* however many cells of the record are missing or do not parse.
C7_NoRecordDropped ==
    (load_outcome \in {"read", "hit"} /\ IsTable(df)) =>
        /\ Len(df.rows) = Len(source.rows)
        /\ \A i \in 1..Len(df.rows) :
            /\ df.rows[i]["index"] = i - 1
            /\ \A c \in TextColumns \cap source.columns :
                    df.rows[i][c] = ReadCell(source.rows[i][c])

\* A file was read that holds a record whose rating, votes and cost are all
\* missing after cleaning, and another record.
C7_Witness ==
    /\ load_outcome = "read" /\ IsTable(df)
    /\ Len(df.rows) >= 2
    /\ \E r \in Rows(df) :
        /\ isna(r["rate"]) /\ isna(r["votes"])
        /\ isna(r["approx_cost(for two people)"])

\* Whether t is a numeral float() accepts: an optional sign, then digits with
\* at most one point and at least one digit, or an infinity.
IsNumeral(t) ==
    LET u == IF t # <<>> /\ t[1] \in {"+", "-"} THEN Tail(t) ELSE t
    IN  \/ LowerStr(u) \in {<<"i", "n", "f">>,
                            <<"i", "n", "f", "i", "n", "i", "t", "y">>}
        \/ \E k \in 0..Len(u) :
            /\ \A j \in 1..k : u[j] \in Digits
            /\ \/ k = Len(u) /\ k >= 1
               \/ /\ k < Len(u) /\ u[k + 1] = "."
                  /\ \A j \in (k + 2)..Len(u) : u[j] \in Digits
                  /\ Len(u) >= 2

\* C8: clean_rate always returns a float or missing, and a number only when
\* the text left of the first '/' is a numeral; of the values "4.1/5", "NEW",
\* "-", "", "nan", "abc/5" and an absent cell it maps the first to 4.1 and
\* every other one to missing.
C8_RatingParser ==
    fn = "clean_rate" =>
        /\ isna(ret) \/ IsDec(ret) \/ IsInf(ret)
        /\ ~isna(ret) =>
                IsText(arg) /\ IsNumeral(Strip(SplitFirst(arg.s, "/")))
        /\ arg = Str(<<"4", ".", "1", "/", "5">>) => ret = Dec(41, 1)
        /\ arg \in {NaN, Str(<<"N", "E", "W">>), Str(<<"-">>), Str(<<>>),
                    Str(<<"n", "a", "n">>), Str(<<"a", "b", "c", "/", "5">>)}
            => ret = NaN

\* clean_rate was applied to "4.1/5".
C8_Witness ==
    /\ fn = "clean_rate"
    /\ arg = Str(<<"4", ".", "1", "/", "5">>) /\ ret = Dec(41, 1)

\* The records of t at location k.
GroupOf(t, k) == SelectSeq(t.rows, LAMBDA r : r["location"] = k)

\* C9: in the profile, the count of each location is the number of records
\* of the filtered table at that location (a record without a name counts),
\* the means are those of the present values, and the locations come by
\* descending number of records.
C9_GroupedProfile ==
    IsTable(location_profile) =>
        LET p == location_profile.rows
            g(i) == GroupOf(df_filtered, p[i]["index"])
            col(i, c) == [j \in 1..Len(g(i)) |-> g(i)[j][c]]
        IN  /\ \A i \in 1..Len(p) :
                /\ p[i]["Nombre"] = Len(g(i))
                /\ p[i]["Note moy."] = MeanRounded(col(i, "rate"), 2)
                /\ p[i]["Votes moy."] = MeanRounded(col(i, "votes"), 2)
                /\ p[i]["Cout moy. (INR)"] =
                        MeanRounded(col(i, "approx_cost(for two people)"), 2)
            /\ \A i, j \in 1..Len(p) : i < j => Len(g(i)) >= Len(g(j))

\* C10: when a text column is absent from the file, load_data still returns a
\* table, the table holds that column with every value missing, and the run
\* does not fail.
C10_AbsentColumnDefaulted ==
    (load_outcome \in {"read", "hit"} /\ IsTable(df)) =>
        /\ TextColumns \subseteq df.columns
        /\ \A c \in TextColumns \ source.columns :
                \A r \in Rows(df) : isna(r[c])
        /\ pc # "crashed"

====
